---- MODULE Spec2Model ----
(***************************************************************************)
(* Model of the two report generators of gunj-operator:                    *)
(*   scripts/generate-maturity-report.py    (MaturityReportGenerator)      *)
(*   scripts/generate-security-dashboard.py (SecurityDashboardGenerator)   *)
(* Each generator is an object whose methods are the actions; the files    *)
(* of the working directory are part of the state.                         *)
(***************************************************************************)
EXTENDS Integers, Sequences, FiniteSets, TLC

VARIABLES
    \* ---- generate-maturity-report.py ----
    assessment_file,   \* maturity-assessment-report.json on disk
    report_data,       \* self.report_data
    mpc,               \* "init" | "ready" | "raised" (uncaught exception)
    mexc,              \* the uncaught exception, [type, key]
    mcall,             \* the method called last
    recommendations,   \* value last returned by _generate_recommendations
    html_content,      \* value returned by generate_html_report
    markdown_content,  \* value last returned by generate_markdown_report
    mfiles,            \* output files written by this invocation
    msteps,            \* steps the last call of save_reports went through
    \* ---- generate-security-dashboard.py ----
    security_report_file,  \* security-assessment-report.json on disk
    trivy_file,            \* trivy-results.json on disk
    script_status,         \* how ./hack/security-assessment.sh ended
    results,               \* self.results
    spc,                   \* "ready" | "raised" (uncaught exception)
    sexc,                  \* the uncaught exception, [type, key]
    scall,                 \* the method called last
    stdout,                \* failure messages printed
    dashboard,             \* generate_html_dashboard: arguments and document
    metrics_json,          \* value returned by generate_metrics_json
    sfiles,                \* output files written by this invocation
    ssteps                 \* steps the last call of run or of
                           \* generate_metrics_json went through

mvars == <<assessment_file, report_data, mpc, mexc, mcall, recommendations,
           html_content, markdown_content, mfiles, msteps>>

svars == <<security_report_file, trivy_file, script_status, results, spc, sexc,
           scall, stdout, dashboard, metrics_json, sfiles, ssteps>>

vars == <<mvars, svars>>

----------------------------------------------------------------------------
(* Sequences helpers *)

Range(s) == {s[i] : i \in DOMAIN s}

----------------------------------------------------------------------------
(* Exceptions *)

NoException == [type |-> "", key |-> ""]
JSONDecodeError == [type |-> "JSONDecodeError", key |-> ""]
KeyError(k) == [type |-> "KeyError", key |-> k]

----------------------------------------------------------------------------
(* Category maxima: the divisors of the percentage computation and the     *)
(* "Max" column of the Markdown table.                                     *)

LevelMax == <<20, 35, 25, 15, 20>>

LevelScore(scores, n) ==
    CASE n = 1 -> scores.level1
      [] n = 2 -> scores.level2
      [] n = 3 -> scores.level3
      [] n = 4 -> scores.level4
      [] n = 5 -> scores.level5

\* every category divided by the maximum of the first one
LevelPctFirstMax(scores, n) ==
    [num |-> LevelScore(scores, n) * 100, den |-> LevelMax[1]]

\* (score / maximum) * 100, kept as the exact fraction num/den
LevelPct(scores, n) == [num |-> LevelScore(scores, n) * 100, den |-> LevelMax[n]]

\* round(x) of Python 3 for x = num/den >= 0: nearest integer, ties to even
PyRound(num, den) ==
    LET q == num \div den
        r == num % den
    IN  IF 2 * r < den THEN q
        ELSE IF 2 * r > den THEN q + 1
        ELSE IF q % 2 = 0 THEN q ELSE q + 1

\* format(x, ".0f") for x = num/den >= 0: the decimal digits of the nearest
\* integer, ties to even, as an integer
FormatF0(num, den) ==
    LET twice == (2 * num) \div den
        exact == (2 * num) % den = 0
        down  == twice \div 2
    IN  IF twice % 2 = 0 THEN down
        ELSE IF ~exact THEN down + 1
        ELSE IF down % 2 = 0 THEN down ELSE down + 1

----------------------------------------------------------------------------
(* _load_assessment_data *)

ZeroScores == [total |-> 0, percentage |-> 0, level1 |-> 0, level2 |-> 0,
               level3 |-> 0, level4 |-> 0, level5 |-> 0]

DefaultReportData ==
    [keys |-> {"timestamp", "project", "scores", "maturityLevel"},
     timestamp |-> "utcnow", scores |-> ZeroScores,
     maturityLevel |-> "0 - Traditional"]

\* the value of report_data before the constructor has run
NoReportData == [keys |-> {}, timestamp |-> "", scores |-> ZeroScores,
                 maturityLevel |-> ""]

\* the load without the os.path.exists test: open() raises on a missing file
LoadAssessmentDataNoExistsTest(file) ==
    IF file.exists /\ file.valid_json
    THEN [exc |-> NoException, data |-> file.data]
    ELSE IF file.exists
    THEN [exc |-> JSONDecodeError, data |-> NoReportData]
    ELSE [exc |-> [type |-> "FileNotFoundError", key |-> ""], data |-> NoReportData]

\* result of the load: the record, or the exception json.load raises
LoadAssessmentData(file) ==
    IF file.exists
    THEN IF file.valid_json
         THEN [exc |-> NoException, data |-> file.data]
         ELSE [exc |-> JSONDecodeError, data |-> NoReportData]
    ELSE [exc |-> NoException, data |-> DefaultReportData]

----------------------------------------------------------------------------
(* _generate_recommendations *)

Level1Recs == <<"Create a Dockerfile for containerizing the application",
                "Implement multi-stage builds to optimize container size",
                "Configure containers to run as non-root user",
                "Use minimal base images (distroless or alpine)">>
Level2Recs == <<"Define Custom Resource Definitions (CRDs)",
                "Implement Kubernetes controller pattern",
                "Create Helm charts for deployment",
                "Configure RBAC policies">>
Level3Recs == <<"Decompose application into microservices",
                "Implement service mesh for inter-service communication",
                "Add distributed tracing with OpenTelemetry">>
Level4Recs == <<"Integrate with cloud provider services (AWS/Azure/GCP)",
                "Implement multi-cloud support",
                "Add cost optimization features">>
Level5Recs == <<"Implement GitOps workflow",
                "Add comprehensive E2E testing",
                "Implement predictive scaling and self-healing">>
FallbackRec ==
    "Excellent! Continue maintaining high standards and consider contributing to CNCF"

When(cond, s) == IF cond THEN s ELSE <<>>

\* the outer test of level 1 written with <= instead of <
Level1RuleInclusive(scores) ==
    When(scores.level1 <= 20,
         When(scores.level1 < 5, <<Level1Recs[1]>>)
         \o When(scores.level1 < 10, <<Level1Recs[2]>>)
         \o When(scores.level1 < 15, <<Level1Recs[3]>>)
         \o <<Level1Recs[4]>>)

Level1Rule(scores) ==
    When(scores.level1 < 20,
         When(scores.level1 < 5, <<Level1Recs[1]>>)
         \o When(scores.level1 < 10, <<Level1Recs[2]>>)
         \o When(scores.level1 < 15, <<Level1Recs[3]>>)
         \o <<Level1Recs[4]>>)

\* level 2 without its prerequisite on level 1
Level2RuleUngated(scores) ==
    When(scores.level2 < 35,
         When(scores.level2 < 10, <<Level2Recs[1]>>)
         \o When(scores.level2 < 20, <<Level2Recs[2]>>)
         \o <<Level2Recs[3], Level2Recs[4]>>)

Level2Rule(scores) ==
    When(scores.level2 < 35 /\ scores.level1 >= 15,
         When(scores.level2 < 10, <<Level2Recs[1]>>)
         \o When(scores.level2 < 20, <<Level2Recs[2]>>)
         \o <<Level2Recs[3], Level2Recs[4]>>)

\* level 3 reported only below 15 instead of below its maximum
Level3RuleLowThreshold(scores) ==
    When(scores.level3 < 15 /\ scores.level2 >= 25, Level3Recs)

Level3Rule(scores) ==
    When(scores.level3 < 25 /\ scores.level2 >= 25, Level3Recs)

Level4Rule(scores) ==
    When(scores.level4 < 15 /\ scores.level3 >= 15, Level4Recs)

Level5Rule(scores) ==
    When(scores.level5 < 20 /\ scores.level4 >= 10, Level5Recs)

\* the list carried over from the call before instead of a new one
KeepList(previous) == previous

\* recommendations = []: every call starts from a new empty list, whatever
\* the call before returned
NewList(previous) == <<>>

\* the closing message appended to every list instead of to the empty one
GenerateRecommendationsAlwaysClosing(scores) ==
    NewList(recommendations)
    \o Level1Rule(scores) \o Level2Rule(scores) \o Level3Rule(scores)
    \o Level4Rule(scores) \o Level5Rule(scores) \o <<FallbackRec>>

GenerateRecommendations(scores) ==
    LET rules == NewList(recommendations)
                 \o Level1Rule(scores) \o Level2Rule(scores) \o Level3Rule(scores)
                 \o Level4Rule(scores) \o Level5Rule(scores)
    IN  IF rules = <<>> THEN <<FallbackRec>> ELSE rules

----------------------------------------------------------------------------
(* str.format: the replacement fields of a template in the order the       *)
(* formatter meets them ("{{" and "}}" are literal braces and give no      *)
(* field).  A field whose name is not a keyword argument raises KeyError;  *)
(* otherwise every field is replaced by the argument of its name.          *)

RECURSIVE FirstMissing(_, _, _)
FirstMissing(fields, names, i) ==
    IF i > Len(fields) THEN 0
    ELSE IF fields[i] \notin names THEN i
    ELSE FirstMissing(fields, names, i + 1)

StrFormat(fields, kwargs) ==
    LET m == FirstMissing(fields, DOMAIN kwargs, 1)
    IN  IF m = 0
        THEN [exc |-> NoException, doc |-> [n \in Range(fields) |-> kwargs[n]]]
        ELSE [exc |-> KeyError(fields[m]), doc |-> <<>>]

----------------------------------------------------------------------------
(* generate_html_report *)

\* the single-brace CSS rules of the <style> block: each "{ ... }" is read
\* as a replacement field named by the text up to the first ":"
HtmlStyleFields ==
    <<"\n            font-family", "\n            max-width",
      "\n            color", "\n            color", "\n            display",
      "\n            background", "\n            margin",
      "\n            font-size", "\n            background",
      "\n            margin", "\n            font-size",
      "\n            display", "\n            background",
      "\n            background", "\n            margin-top",
      "\n            margin", "\n            margin-bottom",
      "\n            max-height", "\n            width",
      "\n            height">>

\* the named placeholders of the <body> and of the chart script
HtmlBodyFields ==
    <<"timestamp", "maturity_level", "percentage", "percentage", "total_score",
      "level1_score", "level2_score", "level3_score", "level4_score",
      "level5_score", "recommendations",
      "level1_pct", "level2_pct", "level3_pct", "level4_pct", "level5_pct",
      "level1_score", "level2_score", "level3_score", "level4_score",
      "level5_score">>

HtmlTemplate == HtmlStyleFields \o HtmlBodyFields

\* the percentage truncated with int() instead of rounded
HtmlTruncatedPct(scores, n) ==
    LevelPct(scores, n).num \div LevelPct(scores, n).den

HtmlRoundedPct(scores, n) ==
    PyRound(LevelPct(scores, n).num, LevelPct(scores, n).den)

HtmlKwargs(data) ==
    [timestamp |-> data.timestamp,
     maturity_level |-> data.maturityLevel,
     percentage |-> data.scores.percentage,
     total_score |-> data.scores.total,
     level1_score |-> data.scores.level1,
     level2_score |-> data.scores.level2,
     level3_score |-> data.scores.level3,
     level4_score |-> data.scores.level4,
     level5_score |-> data.scores.level5,
     level1_pct |-> HtmlRoundedPct(data.scores, 1),
     level2_pct |-> HtmlRoundedPct(data.scores, 2),
     level3_pct |-> HtmlRoundedPct(data.scores, 3),
     level4_pct |-> HtmlRoundedPct(data.scores, 4),
     level5_pct |-> HtmlRoundedPct(data.scores, 5),
     recommendations |-> GenerateRecommendations(data.scores)]

NoHtml == [called |-> FALSE, pct |-> <<>>, kwargs |-> <<>>, doc |-> <<>>]

\* pct: the locals level1_pct .. level5_pct; kwargs: the keyword arguments
\* evaluated for html_template.format; doc: the formatted document
GenerateHtmlReport(data) ==
    LET pct == [n \in 1..5 |-> LevelPct(data.scores, n)]
        r   == StrFormat(HtmlTemplate, HtmlKwargs(data))
    IN  IF "timestamp" \notin data.keys
        THEN [exc |-> KeyError("timestamp"),
              out |-> [called |-> TRUE, pct |-> pct, kwargs |-> <<>>, doc |-> <<>>]]
        ELSE IF "maturityLevel" \notin data.keys
        THEN [exc |-> KeyError("maturityLevel"),
              out |-> [called |-> TRUE, pct |-> pct, kwargs |-> <<>>, doc |-> <<>>]]
        ELSE [exc |-> r.exc,
              out |-> [called |-> TRUE, pct |-> pct, kwargs |-> HtmlKwargs(data),
                       doc |-> r.doc]]

----------------------------------------------------------------------------
(* generate_markdown_report *)

NoMarkdown == [rendered |-> FALSE, timestamp |-> "", maturityLevel |-> "",
               total |-> 0, percentage |-> 0, rows |-> <<>>, recs |-> <<>>]

\* every row of the table divided by 115, the maximum of the total
MarkdownRowOfTotal(scores, n) ==
    [level |-> n, score |-> LevelScore(scores, n), max |-> LevelMax[n],
     pct_exact |-> [num |-> LevelScore(scores, n) * 100, den |-> 115],
     pct |-> FormatF0(LevelScore(scores, n) * 100, 115)]

MarkdownRow(scores, n) ==
    [level |-> n, score |-> LevelScore(scores, n), max |-> LevelMax[n],
     pct_exact |-> LevelPct(scores, n),
     pct |-> FormatF0(LevelPct(scores, n).num, LevelPct(scores, n).den)]

GenerateMarkdownReport(data) ==
    IF "timestamp" \notin data.keys
    THEN [exc |-> KeyError("timestamp"), doc |-> NoMarkdown]
    ELSE IF "maturityLevel" \notin data.keys
    THEN [exc |-> KeyError("maturityLevel"), doc |-> NoMarkdown]
    ELSE [exc |-> NoException,
          doc |-> [rendered |-> TRUE,
                   timestamp |-> data.timestamp,
                   maturityLevel |-> data.maturityLevel,
                   total |-> data.scores.total,
                   percentage |-> data.scores.percentage,
                   rows |-> [n \in 1..5 |-> MarkdownRow(data.scores, n)],
                   recs |-> GenerateRecommendations(data.scores)]]

----------------------------------------------------------------------------
(* save_reports: render and write the HTML report, then render and write   *)
(* the Markdown report; an exception ends the method where it is raised.   *)

\* a step a call begins, and the document or file it works on
Step(s, d) == [step |-> s, doc |-> d]

\* generate_html_report: the percentages, the recommendation list, then
\* html_template.format
HtmlReportSteps ==
    <<Step("Aggregate", "maturity-report.html"),
      Step("Recommend", "maturity-report.html"),
      Step("Render", "maturity-report.html")>>

\* generate_markdown_report: the recommendation list, then the f-string
MarkdownReportSteps ==
    <<Step("Recommend", "maturity-report.md"),
      Step("Render", "maturity-report.md")>>

SaveReportsResult(data, files) ==
    LET html == GenerateHtmlReport(data)
        md   == GenerateMarkdownReport(data)
    IN  IF html.exc # NoException
        THEN [exc |-> html.exc, files |-> files,
              html |-> html.out, md |-> NoMarkdown,
              steps |-> HtmlReportSteps]
        ELSE IF md.exc # NoException
        THEN [exc |-> md.exc, files |-> files \cup {"maturity-report.html"},
              html |-> html.out, md |-> NoMarkdown,
              steps |-> HtmlReportSteps
                        \o <<Step("Write", "maturity-report.html")>>
                        \o MarkdownReportSteps]
        ELSE [exc |-> NoException,
              files |-> files \cup {"maturity-report.html", "maturity-report.md"},
              html |-> html.out, md |-> md.doc,
              steps |-> HtmlReportSteps
                        \o <<Step("Write", "maturity-report.html")>>
                        \o MarkdownReportSteps
                        \o <<Step("Write", "maturity-report.md")>>]

----------------------------------------------------------------------------
(* The contents maturity-assessment-report.json can have.  Scores are      *)
(* sampled on both sides of every threshold the recommendation rules       *)
(* compare against.                                                        *)

Level1Samples == {0, 4, 5, 9, 10, 14, 15, 19, 20}
Level2Samples == {0, 9, 10, 19, 20, 24, 25, 34, 35}
Level3Samples == {0, 14, 15, 24, 25}
Level4Samples == {0, 9, 10, 14, 15}
Level5Samples == {0, 19, 20}

MakeScores(a, b, c, d, e) ==
    [level1 |-> a, level2 |-> b, level3 |-> c, level4 |-> d, level5 |-> e,
     total |-> a + b + c + d + e,
     percentage |-> PyRound((a + b + c + d + e) * 100, 115)]

ScoreRecords ==
    {MakeScores(a, b, c, d, e) : a \in Level1Samples, b \in Level2Samples,
                                 c \in Level3Samples, d \in Level4Samples,
                                 e \in Level5Samples}

FileRecord(hasTs, hasLevel, scores) ==
    [keys |-> {"scores"} \cup (IF hasTs THEN {"timestamp"} ELSE {})
                         \cup (IF hasLevel THEN {"maturityLevel"} ELSE {}),
     timestamp |-> IF hasTs THEN "2025-01-01T00:00:00Z" ELSE "",
     scores |-> scores,
     maturityLevel |-> IF hasLevel THEN "assessed level" ELSE ""]

NoAssessmentFile == [exists |-> FALSE, valid_json |-> FALSE, data |-> NoReportData]
MalformedAssessmentFile == [exists |-> TRUE, valid_json |-> FALSE, data |-> NoReportData]
AssessmentFile(data) == [exists |-> TRUE, valid_json |-> TRUE, data |-> data]

AssessmentFiles ==
    {NoAssessmentFile, MalformedAssessmentFile}
    \cup {AssessmentFile(FileRecord(t, l, s)) :
            t \in BOOLEAN, l \in BOOLEAN, s \in ScoreRecords}

\* every score at its category maximum
ExampleScores == MakeScores(20, 35, 25, 15, 20)

ExampleAssessmentFiles ==
    {NoAssessmentFile, MalformedAssessmentFile,
     AssessmentFile(FileRecord(TRUE, TRUE, ExampleScores)),
     AssessmentFile(FileRecord(FALSE, FALSE, ExampleScores))}

\* one category over its whole range [0, maximum], the others at 0
OneLevelScores(n, v) ==
    MakeScores(IF n = 1 THEN v ELSE 0, IF n = 2 THEN v ELSE 0,
               IF n = 3 THEN v ELSE 0, IF n = 4 THEN v ELSE 0,
               IF n = 5 THEN v ELSE 0)

FullRangeAssessmentFiles ==
    UNION {{AssessmentFile(FileRecord(TRUE, TRUE, OneLevelScores(n, v))) :
                v \in 0..LevelMax[n]} : n \in 1..5}

----------------------------------------------------------------------------
(* run_security_assessment *)

NoSummary == [present |-> FALSE, total_score |-> 0, max_score |-> 0,
              percentage |-> 0]

\* results without the key 'assessment'
NoAssessment == [set |-> FALSE, summary |-> NoSummary]

\* the value the except branch assigns
DefaultAssessment ==
    [set |-> TRUE,
     summary |-> [present |-> TRUE, total_score |-> 0, max_score |-> 100,
                  percentage |-> 0]]

NoReportFile == [exists |-> FALSE, valid_json |-> FALSE, summary |-> NoSummary]
MalformedReportFile == [exists |-> TRUE, valid_json |-> FALSE, summary |-> NoSummary]
ReportFile(pct) ==
    [exists |-> TRUE, valid_json |-> TRUE,
     summary |-> [present |-> TRUE, total_score |-> pct, max_score |-> 100,
                  percentage |-> pct]]

\* what one execution of ./hack/security-assessment.sh can do: it cannot be
\* started (subprocess.run raises), or it runs, exits with a status and
\* leaves the report file as it was, rewritten, or removed
ScriptOutcomes ==
    {[status |-> "cannot_start", file |-> "keep"]}
    \cup [status : {"exit_0", "exit_nonzero"},
          file : {"keep", "valid", "malformed", "remove"}]

\* the report the script writes in this run, and a report left on disk by
\* an earlier run
FreshReport == ReportFile(65)
StaleReport == ReportFile(80)

FileAfterScript(file, outcome) ==
    CASE outcome.file = "keep" -> file
      [] outcome.file = "valid" -> FreshReport
      [] outcome.file = "malformed" -> MalformedReportFile
      [] outcome.file = "remove" -> NoReportFile

ErrorRunningAssessment == "Error running assessment"

\* the try/except of run_security_assessment: every Exception raised by
\* subprocess.run or by json.load is caught, printed and replaced by the
\* default; the exit status of the script is not inspected
RunSecurityAssessmentResult(res, file, out, outcome) ==
    LET after == FileAfterScript(file, outcome)
    IN  IF outcome.status = "cannot_start"
        THEN [results |-> [res EXCEPT !.assessment = DefaultAssessment],
              file |-> file, stdout |-> out \cup {ErrorRunningAssessment}]
        ELSE IF ~after.exists
        THEN [results |-> res, file |-> after, stdout |-> out]
        ELSE IF after.valid_json
        THEN [results |-> [res EXCEPT !.assessment =
                              [set |-> TRUE, summary |-> after.summary]],
              file |-> after, stdout |-> out]
        ELSE [results |-> [res EXCEPT !.assessment = DefaultAssessment],
              file |-> after, stdout |-> out \cup {ErrorRunningAssessment}]

----------------------------------------------------------------------------
(* collect_vulnerability_metrics *)

Tiers == {"critical", "high", "medium", "low"}

ZeroCounts == [t \in Tiers |-> 0]

\* str.lower on the severities that occur
StrLower(str) ==
    CASE str = "CRITICAL" -> "critical"
      [] str = "Critical" -> "critical"
      [] str = "HIGH" -> "high"
      [] str = "MEDIUM" -> "medium"
      [] str = "LOW" -> "low"
      [] str = "UNKNOWN" -> "unknown"
      [] OTHER -> str

\* an entry without Severity taken as of unknown severity
SeverityOfDefaultUnknown(vuln) ==
    StrLower(IF vuln.has_severity THEN vuln.Severity ELSE "UNKNOWN")

\* vuln.get('Severity', 'LOW').lower()
SeverityOf(vuln) == StrLower(IF vuln.has_severity THEN vuln.Severity ELSE "LOW")

\* the severity compared without .lower()
CountVulnCaseSensitive(counts, vuln) ==
    LET severity == IF vuln.has_severity THEN vuln.Severity ELSE "LOW"
    IN  IF severity \in DOMAIN counts
        THEN [counts EXCEPT ![severity] = @ + 1]
        ELSE counts

CountVuln(counts, vuln) ==
    IF SeverityOf(vuln) \in DOMAIN counts
    THEN [counts EXCEPT ![SeverityOf(vuln)] = @ + 1]
    ELSE counts

\* the inner loop, over the 'Vulnerabilities' of one result
RECURSIVE CountVulnerabilities(_, _, _)
CountVulnerabilities(counts, vulnerabilities, i) ==
    IF i > Len(vulnerabilities) THEN counts
    ELSE CountVulnerabilities(CountVuln(counts, vulnerabilities[i]),
                              vulnerabilities, i + 1)

\* the outer loop, over 'Results'
RECURSIVE CountResults(_, _, _)
CountResults(counts, Results, i) ==
    IF i > Len(Results) THEN counts
    ELSE CountResults(CountVulnerabilities(counts, Results[i], 1), Results, i + 1)

NoVulnerabilities == [set |-> FALSE, vulnerabilities |-> <<>>]

CollectVulnerabilityMetricsResult(file) ==
    IF file.exists
    THEN IF file.valid_json
         THEN [exc |-> NoException,
               metrics |-> [set |-> TRUE,
                            vulnerabilities |-> CountResults(ZeroCounts, file.Results, 1)]]
         ELSE [exc |-> JSONDecodeError, metrics |-> NoVulnerabilities]
    ELSE [exc |-> NoException,
          metrics |-> [set |-> TRUE, vulnerabilities |-> ZeroCounts]]

----------------------------------------------------------------------------
(* generate_compliance_report: overall_compliance is 84.3, kept in tenths *)

NoCompliance == [set |-> FALSE, overall_compliance_tenths |-> 0]
ComplianceReport == [set |-> TRUE, overall_compliance_tenths |-> 843]

NoResults == [assessment |-> NoAssessment, vulnerabilities |-> NoVulnerabilities,
              compliance |-> NoCompliance]

----------------------------------------------------------------------------
(* generate_html_dashboard *)

\* sum(d.values())
RECURSIVE SumValues(_)
SumValues(d) ==
    IF DOMAIN d = {} THEN 0
    ELSE LET k == CHOOSE x \in DOMAIN d : TRUE
         IN  d[k] + SumValues([x \in DOMAIN d \ {k} |-> d[x]])

\* d.get(key, 0)
GetOrZero(d, key) == IF key \in DOMAIN d THEN d[key] ELSE 0

\* results.get('assessment', {}).get('summary', {}).get('percentage', 0)
SecurityScore(res) ==
    IF res.assessment.set /\ res.assessment.summary.present
    THEN res.assessment.summary.percentage
    ELSE 0

\* results.get('vulnerabilities', {}).get('vulnerabilities', {})
VulnerabilityCounts(res) ==
    IF res.vulnerabilities.set THEN res.vulnerabilities.vulnerabilities ELSE <<>>

\* the single-brace CSS rules of the <style> block
DashboardStyleFields ==
    <<"\n            background", "\n            position",
      "\n            font-size", "\n            display",
      " background-color", " background-color", " background-color">>

DashboardBodyFields ==
    <<"timestamp", "security_score", "compliance_score", "total_vulns",
      "critical_vulns", "high_vulns", "medium_vulns", "low_vulns",
      "compliance_cards", "security_checks", "recommendations",
      "critical_vulns", "high_vulns", "medium_vulns", "low_vulns">>

DashboardTemplate == DashboardStyleFields \o DashboardBodyFields

DashboardKwargs(res) ==
    [timestamp |-> "utcnow",
     security_score |-> SecurityScore(res),
     compliance_score |-> res.compliance.overall_compliance_tenths \div 10,
     total_vulns |-> SumValues(VulnerabilityCounts(res)),
     critical_vulns |-> GetOrZero(VulnerabilityCounts(res), "critical"),
     high_vulns |-> GetOrZero(VulnerabilityCounts(res), "high"),
     medium_vulns |-> GetOrZero(VulnerabilityCounts(res), "medium"),
     low_vulns |-> GetOrZero(VulnerabilityCounts(res), "low"),
     compliance_cards |-> IF res.compliance.set THEN 3 ELSE 0,
     security_checks |-> "Run security assessment to see detailed results",
     recommendations |-> 5]

NoDashboard == [called |-> FALSE, kwargs |-> <<>>, doc |-> <<>>]

GenerateHtmlDashboard(res) ==
    LET r == StrFormat(DashboardTemplate, DashboardKwargs(res))
    IN  [exc |-> r.exc,
         out |-> [called |-> TRUE, kwargs |-> DashboardKwargs(res), doc |-> r.doc]]

----------------------------------------------------------------------------
(* generate_metrics_json *)

NoMetrics == [written |-> FALSE, security_score |-> 0,
              compliance_score_tenths |-> 0, vulnerabilities |-> <<>>]

GenerateMetricsJsonResult(res) ==
    [written |-> TRUE,
     security_score |-> SecurityScore(res),
     compliance_score_tenths |-> res.compliance.overall_compliance_tenths,
     vulnerabilities |-> VulnerabilityCounts(res)]

\* generate_metrics_json: the metrics dictionary is built, the file is
\* opened for writing, then json.dump serialises into the open file
MetricsJsonSteps ==
    <<Step("Aggregate", "security-metrics.json"),
      Step("Write", "security-metrics.json"),
      Step("Render", "security-metrics.json")>>

----------------------------------------------------------------------------
(* run: the five steps in order; an uncaught exception ends the run where  *)
(* it is raised.                                                           *)

RunResult(res, report, trivy, out, files, outcome) ==
    LET a    == RunSecurityAssessmentResult(res, report, out, outcome)
        v    == CollectVulnerabilityMetricsResult(trivy)
        res2 == [a.results EXCEPT !.vulnerabilities = v.metrics]
        res3 == [res2 EXCEPT !.compliance = ComplianceReport]
        h    == GenerateHtmlDashboard(res3)
        load == <<Step("Load", "security-assessment-report.json"),
                  Step("Load", "trivy-results.json")>>
        html == <<Step("Aggregate", "compliance"),
                  Step("Render", "security-dashboard.html")>>
    IN  IF v.exc # NoException
        THEN [exc |-> v.exc, results |-> a.results, file |-> a.file,
              stdout |-> a.stdout, files |-> files,
              dashboard |-> NoDashboard, metrics |-> NoMetrics,
              steps |-> load]
        ELSE IF h.exc # NoException
        THEN [exc |-> h.exc, results |-> res3, file |-> a.file,
              stdout |-> a.stdout, files |-> files,
              dashboard |-> h.out, metrics |-> NoMetrics,
              steps |-> load \o html]
        ELSE [exc |-> NoException, results |-> res3, file |-> a.file,
              stdout |-> a.stdout,
              files |-> files \cup {"security-dashboard.html", "security-metrics.json"},
              dashboard |-> h.out, metrics |-> GenerateMetricsJsonResult(res3),
              steps |-> load \o html
                        \o <<Step("Write", "security-dashboard.html")>>
                        \o MetricsJsonSteps]

----------------------------------------------------------------------------
(* The contents the input files of the dashboard generator can have *)

MaxResults == 2
MaxVulns == 2

Severities == {"CRITICAL", "HIGH", "MEDIUM", "LOW", "Critical", "UNKNOWN"}

VulnEntries ==
    {[has_severity |-> TRUE, Severity |-> sev] : sev \in Severities}
    \cup {[has_severity |-> FALSE, Severity |-> ""]}

SeqsUpTo(S, n) == UNION {[1..k -> S] : k \in 0..n}

TrivyData(maxResults, maxVulns) == SeqsUpTo(SeqsUpTo(VulnEntries, maxVulns), maxResults)

NoTrivyFile == [exists |-> FALSE, valid_json |-> FALSE, Results |-> <<>>]
MalformedTrivyFile == [exists |-> TRUE, valid_json |-> FALSE, Results |-> <<>>]

TrivyFiles(maxResults, maxVulns) ==
    {NoTrivyFile, MalformedTrivyFile}
    \cup {[exists |-> TRUE, valid_json |-> TRUE, Results |-> d] :
            d \in TrivyData(maxResults, maxVulns)}

ReportFiles == {NoReportFile, MalformedReportFile, StaleReport}

----------------------------------------------------------------------------
(* MaturityReportGenerator as a state machine *)

MStart(files) ==
    /\ assessment_file \in files
    /\ report_data = NoReportData
    /\ mpc = "init"
    /\ mexc = NoException
    /\ mcall = ""
    /\ recommendations = <<>>
    /\ html_content = NoHtml
    /\ markdown_content = NoMarkdown
    /\ mfiles = {}
    /\ msteps = <<>>

\* MaturityReportGenerator(): __init__ loads the assessment file
Construct ==
    /\ mpc = "init"
    /\ LET r == LoadAssessmentData(assessment_file)
       IN  /\ report_data' = r.data
           /\ mexc' = r.exc
           /\ mpc' = IF r.exc = NoException THEN "ready" ELSE "raised"
    /\ mcall' = "__init__"
    /\ UNCHANGED <<assessment_file, recommendations, html_content,
                   markdown_content, mfiles, msteps>>
    /\ UNCHANGED svars

CallGenerateRecommendations ==
    /\ mpc = "ready"
    /\ recommendations' = GenerateRecommendations(report_data.scores)
    /\ mcall' = "_generate_recommendations"
    /\ UNCHANGED <<assessment_file, report_data, mpc, mexc, html_content,
                   markdown_content, mfiles, msteps>>
    /\ UNCHANGED svars

CallGenerateHtmlReport ==
    /\ mpc = "ready"
    /\ LET r == GenerateHtmlReport(report_data)
       IN  /\ html_content' = r.out
           /\ mexc' = r.exc
           /\ mpc' = IF r.exc = NoException THEN "ready" ELSE "raised"
    /\ mcall' = "generate_html_report"
    /\ recommendations' = GenerateRecommendations(report_data.scores)
    /\ UNCHANGED <<assessment_file, report_data, markdown_content, mfiles,
                   msteps>>
    /\ UNCHANGED svars

CallGenerateMarkdownReport ==
    /\ mpc = "ready"
    /\ LET r == GenerateMarkdownReport(report_data)
       IN  /\ markdown_content' = r.doc
           /\ mexc' = r.exc
           /\ mpc' = IF r.exc = NoException THEN "ready" ELSE "raised"
    /\ mcall' = "generate_markdown_report"
    /\ recommendations' = GenerateRecommendations(report_data.scores)
    /\ UNCHANGED <<assessment_file, report_data, html_content, mfiles,
                   msteps>>
    /\ UNCHANGED svars

SaveReports ==
    /\ mpc = "ready"
    /\ LET r == SaveReportsResult(report_data, mfiles)
       IN  /\ html_content' = r.html
           /\ markdown_content' = r.md
           /\ mfiles' = r.files
           /\ msteps' = r.steps
           /\ mexc' = r.exc
           /\ mpc' = IF r.exc = NoException THEN "ready" ELSE "raised"
    /\ mcall' = "save_reports"
    /\ recommendations' = GenerateRecommendations(report_data.scores)
    /\ UNCHANGED <<assessment_file, report_data>>
    /\ UNCHANGED svars

----------------------------------------------------------------------------
(* SecurityDashboardGenerator as a state machine; the constructor only     *)
(* sets self.results = {}.                                                 *)

SStart(reports, trivys) ==
    /\ security_report_file \in reports
    /\ trivy_file \in trivys
    /\ script_status = "not_run"
    /\ results = NoResults
    /\ spc = "ready"
    /\ sexc = NoException
    /\ scall = ""
    /\ stdout = {}
    /\ dashboard = NoDashboard
    /\ metrics_json = NoMetrics
    /\ sfiles = {}
    /\ ssteps = <<>>

\* the assessment script is run once per generator
RunSecurityAssessment ==
    /\ spc = "ready"
    /\ script_status = "not_run"
    /\ \E outcome \in ScriptOutcomes :
         LET r == RunSecurityAssessmentResult(results, security_report_file,
                                              stdout, outcome)
         IN  /\ results' = r.results
             /\ security_report_file' = r.file
             /\ stdout' = r.stdout
             /\ script_status' = outcome.status
    /\ scall' = "run_security_assessment"
    /\ dashboard' = NoDashboard
    /\ metrics_json' = NoMetrics
    /\ UNCHANGED <<trivy_file, spc, sexc, sfiles, ssteps>>
    /\ UNCHANGED mvars

CollectVulnerabilityMetrics ==
    /\ spc = "ready"
    /\ LET r == CollectVulnerabilityMetricsResult(trivy_file)
       IN  /\ results' = IF r.exc = NoException
                         THEN [results EXCEPT !.vulnerabilities = r.metrics]
                         ELSE results
           /\ sexc' = r.exc
           /\ spc' = IF r.exc = NoException THEN "ready" ELSE "raised"
    /\ scall' = "collect_vulnerability_metrics"
    /\ dashboard' = NoDashboard
    /\ metrics_json' = NoMetrics
    /\ UNCHANGED <<security_report_file, trivy_file, script_status, stdout,
                   sfiles, ssteps>>
    /\ UNCHANGED mvars

GenerateComplianceReport ==
    /\ spc = "ready"
    /\ results' = [results EXCEPT !.compliance = ComplianceReport]
    /\ scall' = "generate_compliance_report"
    /\ dashboard' = NoDashboard
    /\ metrics_json' = NoMetrics
    /\ UNCHANGED <<security_report_file, trivy_file, script_status, spc, sexc,
                   stdout, sfiles, ssteps>>
    /\ UNCHANGED mvars

CallGenerateHtmlDashboard ==
    /\ spc = "ready"
    /\ LET r == GenerateHtmlDashboard(results)
       IN  /\ dashboard' = r.out
           /\ sexc' = r.exc
           /\ spc' = IF r.exc = NoException THEN "ready" ELSE "raised"
    /\ scall' = "generate_html_dashboard"
    /\ metrics_json' = NoMetrics
    /\ UNCHANGED <<security_report_file, trivy_file, script_status, results,
                   stdout, sfiles, ssteps>>
    /\ UNCHANGED mvars

GenerateMetricsJson ==
    /\ spc = "ready"
    /\ metrics_json' = GenerateMetricsJsonResult(results)
    /\ sfiles' = sfiles \cup {"security-metrics.json"}
    /\ ssteps' = MetricsJsonSteps
    /\ scall' = "generate_metrics_json"
    /\ dashboard' = NoDashboard
    /\ UNCHANGED <<security_report_file, trivy_file, script_status, results,
                   spc, sexc, stdout>>
    /\ UNCHANGED mvars

\* run() on a generator on which nothing has been called yet
Run ==
    /\ spc = "ready"
    /\ scall = ""
    /\ \E outcome \in ScriptOutcomes :
         LET r == RunResult(results, security_report_file, trivy_file, stdout,
                            sfiles, outcome)
         IN  /\ results' = r.results
             /\ security_report_file' = r.file
             /\ stdout' = r.stdout
             /\ sfiles' = r.files
             /\ ssteps' = r.steps
             /\ dashboard' = r.dashboard
             /\ metrics_json' = r.metrics
             /\ sexc' = r.exc
             /\ spc' = IF r.exc = NoException THEN "ready" ELSE "raised"
             /\ script_status' = outcome.status
    /\ scall' = "run"
    /\ UNCHANGED trivy_file
    /\ UNCHANGED mvars

----------------------------------------------------------------------------
(* Specifications *)

\* one invocation of the maturity report generator
MInit ==
    /\ MStart(AssessmentFiles)
    /\ SStart({NoReportFile}, {NoTrivyFile})

MNext ==
    \/ Construct
    \/ CallGenerateRecommendations
    \/ CallGenerateHtmlReport
    \/ CallGenerateMarkdownReport
    \/ SaveReports

SpecMaturity == MInit /\ [][MNext]_vars

\* both generators invoked in one working directory
SInit ==
    /\ MStart(ExampleAssessmentFiles)
    /\ SStart(ReportFiles, TrivyFiles(1, 1))

SNext ==
    \/ Construct
    \/ CallGenerateRecommendations
    \/ CallGenerateHtmlReport
    \/ CallGenerateMarkdownReport
    \/ SaveReports
    \/ RunSecurityAssessment
    \/ CollectVulnerabilityMetrics
    \/ GenerateComplianceReport
    \/ CallGenerateHtmlDashboard
    \/ GenerateMetricsJson
    \/ Run

SpecTools == SInit /\ [][SNext]_vars

\* vulnerability counting over every Trivy input within the bounds
TInit ==
    /\ MStart({NoAssessmentFile})
    /\ SStart({NoReportFile}, TrivyFiles(MaxResults, MaxVulns))

TNext ==
    \/ CollectVulnerabilityMetrics
    \/ CallGenerateHtmlDashboard

SpecTrivy == TInit /\ [][TNext]_vars

\* the percentage computation over every score of every category
PInit ==
    /\ MStart(FullRangeAssessmentFiles)
    /\ SStart({NoReportFile}, {NoTrivyFile})

PNext ==
    \/ Construct
    \/ CallGenerateHtmlReport
    \/ CallGenerateMarkdownReport

SpecPercentage == PInit /\ [][PNext]_vars

----------------------------------------------------------------------------
(* Properties *)

AllKeys(data) == {"timestamp", "maturityLevel", "scores"} \subseteq data.keys

AtMaximum(scores) ==
    /\ scores.level1 = 20
    /\ scores.level2 = 35
    /\ scores.level3 = 25
    /\ scores.level4 = 15
    /\ scores.level5 = 20

\* C1: for a record that carries every field the template uses,
\* generate_html_report returns without raising a document in which every
\* named placeholder is replaced by its value, and str.format meets no
\* field name without a value.
C1_HtmlReportComplete ==
    (mcall = "generate_html_report" /\ AllKeys(report_data))
    => /\ mpc = "ready"
       /\ mexc = NoException
       /\ DOMAIN html_content.doc = Range(HtmlBodyFields)
       /\ html_content.doc["timestamp"] = report_data.timestamp
       /\ html_content.doc["maturity_level"] = report_data.maturityLevel
       /\ html_content.doc["total_score"] = report_data.scores.total

InputsAbsentOrWellFormed ==
    /\ assessment_file.exists => (assessment_file.valid_json /\ AllKeys(assessment_file.data))
    /\ security_report_file.exists => security_report_file.valid_json
    /\ trivy_file.exists => trivy_file.valid_json

\* C2: an invocation whose input files are each absent or well-formed runs
\* to completion and has then written all its output files: save_reports
\* maturity-report.html and maturity-report.md, run security-dashboard.html
\* and security-metrics.json.
C2_AllOutputsWritten ==
    /\ (mcall = "save_reports" /\ InputsAbsentOrWellFormed)
       => /\ mpc = "ready"
          /\ {"maturity-report.html", "maturity-report.md"} \subseteq mfiles
    /\ (scall = "run" /\ InputsAbsentOrWellFormed)
       => /\ spc = "ready"
          /\ {"security-dashboard.html", "security-metrics.json"} \subseteq sfiles

ScriptRan == script_status \in {"exit_0", "exit_nonzero"}

\* C3: loading a missing input file never raises and gives zero-valued data:
\* the default maturity record has every score 0 and level "0 - Traditional",
\* a missing trivy-results.json gives four zero counts, and when the script
\* ran and left no security-assessment-report.json the reported security
\* score is 0.
C3_MissingFileGivesZeroDefaults ==
    /\ (mcall = "__init__" /\ ~assessment_file.exists)
       => /\ mpc = "ready"
          /\ mexc = NoException
          /\ \A n \in 1..5 : LevelScore(report_data.scores, n) = 0
          /\ report_data.scores.total = 0
          /\ report_data.scores.percentage = 0
          /\ report_data.maturityLevel = "0 - Traditional"
    /\ (scall = "collect_vulnerability_metrics" /\ ~trivy_file.exists)
       => /\ spc = "ready"
          /\ sexc = NoException
          /\ results.vulnerabilities.set
          /\ DOMAIN results.vulnerabilities.vulnerabilities = Tiers
          /\ \A t \in Tiers : results.vulnerabilities.vulnerabilities[t] = 0
    /\ (ScriptRan /\ ~security_report_file.exists)
       => /\ scall = "run_security_assessment" => spc = "ready"
          /\ metrics_json.written => metrics_json.security_score = 0
          /\ dashboard.called => dashboard.kwargs.security_score = 0

C3_Witness ==
    /\ mcall = "__init__" /\ ~assessment_file.exists /\ mpc = "ready"
    /\ ~trivy_file.exists /\ results.vulnerabilities.set
    /\ ScriptRan /\ ~security_report_file.exists
    /\ scall = "generate_metrics_json" /\ metrics_json.written

\* C4: for each of the three input files, a file that exists but is not
\* valid JSON makes the load fail with a parse error that reaches the
\* caller; no default is substituted.
C4_MalformedInputPropagates ==
    /\ (mcall = "__init__" /\ assessment_file.exists /\ ~assessment_file.valid_json)
       => (mpc = "raised" /\ mexc = JSONDecodeError)
    /\ (scall = "collect_vulnerability_metrics"
        /\ trivy_file.exists /\ ~trivy_file.valid_json)
       => (spc = "raised" /\ sexc = JSONDecodeError)
    /\ (scall = "run_security_assessment" /\ ScriptRan
        /\ security_report_file.exists /\ ~security_report_file.valid_json)
       => (spc = "raised" /\ sexc = JSONDecodeError /\ ~results.assessment.set)

\* C5: when the assessment script cannot be started or exits with a failure
\* status, run_security_assessment does not abort, logs the failure, and the
\* assessment used afterwards is the zero-valued default, never a report
\* left on disk by an earlier invocation.
C5_FailedScriptGivesDefault ==
    (scall = "run_security_assessment"
     /\ script_status \in {"cannot_start", "exit_nonzero"})
    => /\ spc = "ready"
       /\ ErrorRunningAssessment \in stdout
       /\ results.assessment.set
       /\ results.assessment.summary.total_score = 0
       /\ results.assessment.summary.max_score = 100
       /\ results.assessment.summary.percentage = 0

\* C6: for the record with every score at its category maximum,
\* _generate_recommendations returns exactly the fallback message.
C6_AllMaximaGiveFallback ==
    (mcall = "_generate_recommendations" /\ AtMaximum(report_data.scores))
    => /\ Len(recommendations) = 1
       /\ recommendations[1] = FallbackRec

C6_Witness ==
    /\ mcall = "_generate_recommendations"
    /\ AtMaximum(report_data.scores)
    /\ recommendations # <<>>

Recommends(recs) == Range(recommendations) \cap Range(recs) # {}

\* C7: a recommendation of level 2, 3, 4 or 5 is returned only if the
\* preceding level reaches its prerequisite (level1 >= 15, level2 >= 25,
\* level3 >= 15, level4 >= 10); level 1 recommendations depend on level1
\* alone.
C7_LaterLevelsAreGated ==
    mcall = "_generate_recommendations"
    => /\ Recommends(Level2Recs) => report_data.scores.level1 >= 15
       /\ Recommends(Level3Recs) => report_data.scores.level2 >= 25
       /\ Recommends(Level4Recs) => report_data.scores.level3 >= 15
       /\ Recommends(Level5Recs) => report_data.scores.level4 >= 10
       /\ report_data.scores.level1 < 20 => Recommends(Level1Recs)

C7_Witness ==
    /\ mcall = "_generate_recommendations"
    /\ Recommends(Level2Recs) /\ Recommends(Level3Recs)
    /\ Recommends(Level4Recs) /\ Recommends(Level5Recs)
    /\ ~Recommends(Level1Recs)

ExampleRendered ==
    /\ mpc = "ready"
    /\ markdown_content.rendered
    /\ \A n \in 1..5 : markdown_content.rows[n].pct = 100
    /\ markdown_content.recs = <<FallbackRec>>

\* C8 as stated: the example record with no top-level field other than
\* "scores" is rendered into a Markdown document with 100% in every row and
\* the fallback recommendation as sole entry.
C8_BareExampleRendered ==
    (mcall = "generate_markdown_report" /\ report_data.keys = {"scores"}
     /\ report_data.scores = ExampleScores)
    => ExampleRendered

\* C8: the example record that also carries the top-level fields timestamp
\* and maturityLevel is rendered into a Markdown document with 100% in every
\* row and the fallback recommendation as sole entry; with "scores" as its
\* only top-level field generate_markdown_report raises KeyError and renders
\* nothing.
C8_ExampleWithHeaderRendered ==
    /\ (mcall = "generate_markdown_report" /\ AllKeys(report_data)
        /\ report_data.scores = ExampleScores)
       => ExampleRendered
    /\ (mcall = "generate_markdown_report" /\ report_data.keys = {"scores"})
       => /\ mpc = "raised"
          /\ mexc = KeyError("timestamp")
          /\ ~markdown_content.rendered

C8_Witness ==
    /\ mcall = "generate_markdown_report"
    /\ AllKeys(report_data)
    /\ report_data.scores = ExampleScores
    /\ markdown_content.rendered

\* the spellings of a tier's name
TierSpellings(t) ==
    CASE t = "critical" -> {"CRITICAL", "Critical"}
      [] t = "high" -> {"HIGH"}
      [] t = "medium" -> {"MEDIUM"}
      [] t = "low" -> {"LOW"}

\* the positions <<i, j>> of the entries of the Trivy file
EntryPositions ==
    UNION {{<<i, j>> : j \in DOMAIN trivy_file.Results[i]} :
             i \in DOMAIN trivy_file.Results}

EntriesOfTier(t) ==
    {p \in EntryPositions :
        /\ trivy_file.Results[p[1]][p[2]].has_severity
        /\ trivy_file.Results[p[1]][p[2]].Severity \in TierSpellings(t)}

EveryEntryHasSeverity ==
    \A p \in EntryPositions : trivy_file.Results[p[1]][p[2]].has_severity

CountOf(t) == results.vulnerabilities.vulnerabilities[t]

InRange(frac) == frac.den > 0 /\ 0 <= frac.num /\ frac.num <= 100 * frac.den

ScoresWithinMaxima(scores) ==
    \A n \in 1..5 : LevelScore(scores, n) \in 0..LevelMax[n]

\* C10: for every category and every score in [0, category maximum] the
\* percentage score / maximum * 100 lies in [0, 100], unrounded and as
\* rounded for the HTML chart and for the Markdown table.
C10_PercentageWithinBounds ==
    ScoresWithinMaxima(report_data.scores)
    => /\ html_content.called
          => /\ \A n \in 1..5 : InRange(html_content.pct[n])
             /\ html_content.kwargs.level1_pct \in 0..100
             /\ html_content.kwargs.level2_pct \in 0..100
             /\ html_content.kwargs.level3_pct \in 0..100
             /\ html_content.kwargs.level4_pct \in 0..100
             /\ html_content.kwargs.level5_pct \in 0..100
       /\ markdown_content.rendered
          => \A n \in 1..5 : /\ InRange(markdown_content.rows[n].pct_exact)
                             /\ markdown_content.rows[n].pct \in 0..100

C10_Witness ==
    /\ markdown_content.rendered
    /\ report_data.scores.level2 = 35
    /\ markdown_content.rows[2].pct = 100

\* v is an integer nearest to num/den
Nearest(v, num, den) ==
    /\ 2 * (v * den - num) <= den
    /\ 2 * (num - v * den) <= den

HtmlPct(n) ==
    CASE n = 1 -> html_content.kwargs.level1_pct
      [] n = 2 -> html_content.kwargs.level2_pct
      [] n = 3 -> html_content.kwargs.level3_pct
      [] n = 4 -> html_content.kwargs.level4_pct
      [] n = 5 -> html_content.kwargs.level5_pct

HtmlArgumentsEvaluated == html_content.called /\ html_content.kwargs # <<>>

\* C11: for every category and every integer score in [0, category maximum]
\* the percentage displayed is the integer nearest to 100 * score / maximum,
\* and the value given to the HTML chart (round) is the same integer as the
\* value printed in the Markdown table (.0f).
C11_DisplayedPercentageIsNearest ==
    ScoresWithinMaxima(report_data.scores)
    => /\ HtmlArgumentsEvaluated
          => \A n \in 1..5 :
                Nearest(HtmlPct(n), 100 * LevelScore(report_data.scores, n), LevelMax[n])
       /\ markdown_content.rendered
          => \A n \in 1..5 :
                Nearest(markdown_content.rows[n].pct,
                        100 * LevelScore(report_data.scores, n), LevelMax[n])
       /\ (HtmlArgumentsEvaluated /\ markdown_content.rendered)
          => \A n \in 1..5 : HtmlPct(n) = markdown_content.rows[n].pct

C11_Witness ==
    /\ HtmlArgumentsEvaluated
    /\ markdown_content.rendered
    /\ report_data.scores.level2 = 2
    /\ HtmlPct(2) = 6
    /\ markdown_content.rows[2].pct = 6

\* C12: _generate_recommendations is a deterministic, side-effect-free
\* function of the scores: no call changes report_data, and the lists
\* returned by different calls on the same record (directly, from
\* generate_html_report, from generate_markdown_report) are equal, order
\* included, so that the HTML arguments and the Markdown document carry the
\* same list.
C12_RecommendationsDeterministic ==
    /\ mpc # "init" => report_data = LoadAssessmentData(assessment_file).data
    /\ (HtmlArgumentsEvaluated /\ markdown_content.rendered)
       => html_content.kwargs.recommendations = markdown_content.recs
    /\ (mcall # "__init__" /\ markdown_content.rendered)
       => recommendations = markdown_content.recs
    /\ HtmlArgumentsEvaluated
       => recommendations = html_content.kwargs.recommendations

C12_Witness ==
    /\ HtmlArgumentsEvaluated
    /\ markdown_content.rendered
    /\ Len(markdown_content.recs) > 1
    /\ html_content.kwargs.recommendations = markdown_content.recs

MaturityDocuments == {"maturity-report.html", "maturity-report.md"}

DashboardDocuments == {"security-dashboard.html", "security-metrics.json"}

\* no file is opened for writing before every document is rendered
WritesFollowAllRenders(steps, docs) ==
    \A i \in DOMAIN steps :
        steps[i].step = "Write"
        => \A d \in docs : \E j \in 1..(i - 1) : steps[j] = Step("Render", d)

\* the steps go as far as writing every document
EveryDocumentWritten(steps, docs) ==
    \A d \in docs : \E i \in DOMAIN steps : steps[i] = Step("Write", d)

RecommendationsReturned ==
    mcall \in {"_generate_recommendations", "generate_html_report",
               "generate_markdown_report", "save_reports"}

RuleOrder == Level1Recs \o Level2Recs \o Level3Recs \o Level4Recs \o Level5Recs

PositionInRuleOrder(rec) == CHOOSE i \in DOMAIN RuleOrder : RuleOrder[i] = rec

\* recs selects entries of RuleOrder, each at most once, in RuleOrder's order
SubsequenceOfRuleOrder(recs) ==
    /\ \A i \in DOMAIN recs : recs[i] \in Range(RuleOrder)
    /\ \A i, j \in DOMAIN recs :
         i < j => PositionInRuleOrder(recs[i]) < PositionInRuleOrder(recs[j])

\* C14: the list _generate_recommendations returns is either the fallback
\* message alone or a duplicate-free subsequence of the fixed rule order
\* (the four Level 1 entries, the four Level 2 entries, then the three
\* entries each of Levels 3, 4 and 5); the fallback message never appears
\* together with a rule's recommendation.
C14_ListFollowsRuleOrder ==
    /\ Len(RuleOrder) = 17
    /\ Cardinality(Range(RuleOrder)) = 17
    /\ FallbackRec \notin Range(RuleOrder)
    /\ RecommendationsReturned
       => \/ recommendations = <<FallbackRec>>
          \/ SubsequenceOfRuleOrder(recommendations)

C14_Witness ==
    /\ mcall = "_generate_recommendations"
    /\ recommendations = <<Level1Recs[3], Level1Recs[4], Level3Recs[1],
                           Level3Recs[2], Level3Recs[3], Level5Recs[1],
                           Level5Recs[2], Level5Recs[3]>>

\* C15: for a record whose five scores lie within their category maxima,
\* _generate_recommendations returns a non-empty list, and the list is the
\* fallback message exactly when every score equals its maximum: a record
\* with some score below its maximum is never told "Excellent", whatever
\* the gating of later levels on earlier ones.
C15_FallbackOnlyAtAllMaxima ==
    (RecommendationsReturned /\ ScoresWithinMaxima(report_data.scores))
    => /\ recommendations # <<>>
       /\ recommendations = <<FallbackRec>> <=> AtMaximum(report_data.scores)
       /\ FallbackRec \in Range(recommendations) <=> AtMaximum(report_data.scores)

\* level 2 is below its maximum and its rule is gated off by level 1, yet
\* the list is not the fallback
C15_Witness ==
    /\ mcall = "_generate_recommendations"
    /\ report_data.scores.level1 = 10
    /\ report_data.scores.level2 = 0
    /\ recommendations # <<>>
    /\ Range(recommendations) \cap Range(Level2Recs) = {}
    /\ FallbackRec \notin Range(recommendations)

EntriesWithoutSeverity ==
    {p \in EntryPositions : ~trivy_file.Results[p[1]][p[2]].has_severity}

\* the entries whose Severity is none of the four tiers in any spelling
EntriesOfNoTier ==
    {p \in EntryPositions :
        /\ trivy_file.Results[p[1]][p[2]].has_severity
        /\ \A t \in Tiers : trivy_file.Results[p[1]][p[2]].Severity \notin TierSpellings(t)}

TotalCount == CountOf("critical") + CountOf("high") + CountOf("medium") + CountOf("low")

\* C16: collect_vulnerability_metrics matches severities whatever their
\* case, counts an entry without Severity as low and counts an entry whose
\* Severity is none of the four tiers nowhere; so the total of the four
\* counts is at most the number of entries, and equals it exactly when
\* every entry's severity is absent or one of the four tiers.
C16_TotalAtMostEntries ==
    (results.vulnerabilities.set /\ trivy_file.exists)
    => /\ \A t \in {"critical", "high", "medium"} :
             CountOf(t) = Cardinality(EntriesOfTier(t))
       /\ CountOf("low") = Cardinality(EntriesOfTier("low"))
                           + Cardinality(EntriesWithoutSeverity)
       /\ TotalCount = Cardinality(EntryPositions) - Cardinality(EntriesOfNoTier)
       /\ TotalCount <= Cardinality(EntryPositions)
       /\ TotalCount = Cardinality(EntryPositions) <=> EntriesOfNoTier = {}

\* a mixed-case severity, an entry without Severity and an UNKNOWN one
C16_Witness ==
    /\ results.vulnerabilities.set
    /\ trivy_file.exists
    /\ \E p \in EntryPositions :
         /\ trivy_file.Results[p[1]][p[2]].has_severity
         /\ trivy_file.Results[p[1]][p[2]].Severity = "Critical"
    /\ \E p \in EntriesOfNoTier : trivy_file.Results[p[1]][p[2]].Severity = "UNKNOWN"
    /\ Cardinality(EntriesWithoutSeverity) = 1
    /\ Cardinality(EntryPositions) = 3
    /\ CountOf("critical") = 1
    /\ CountOf("low") = 1
    /\ TotalCount = 2

====
